---- MODULE Spec2Model ----
(***************************************************************************)
(* Connection supervision of one IntesisAC climate entity                  *)
(* (custom_components/intesishome_local/climate.py).                       *)
(*                                                                         *)
(* The entity keeps a connectivity flag (self._connected) next to the      *)
(* controller's own is_connected property.  async_update (polling) and     *)
(* async_update_callback (change notifications) both write the flag;       *)
(* async_update_callback also defines the closure try_connect, the         *)
(* exponential back-off reconnect.                                         *)
(*                                                                         *)
(* The controller (pyintesishome) and the scheduler (async_call_later) are *)
(* external: connect() either succeeds or raises IHConnectionError, and    *)
(* call_later(delay, job) runs job once, later, on the same loop.  Pending *)
(* timers carry their delay; the order in which they fire is left open.    *)
(*                                                                         *)
(* Spec is one entity as the program runs it; SpecTry starts with one      *)
(* try_connect job pending; SpecFlow is the hand-over of the controller    *)
(* from the config flow to the platform setup; SpecShared is the removal   *)
(* of entities that were made from one controller.                         *)
(***************************************************************************)
EXTENDS Integers, Sequences, FiniteSets, Bags, TLC

\* ---------------------------------------------------------------- constants
MAX_RETRIES == 10
MAX_WAIT_TIME == 300
reconnect_seconds == 30

\* ------------------------------------------------------------------- bounds
\* connect() calls made by try_connect in one behaviour
MaxAttempts == 3
\* the count of disconnect branches taken stops here
MaxDrops == 2
\* IntesisHomeLocal objects constructed in one behaviour
MaxControllers == 3
\* entities made from one controller
NumEntities == 3

\* ------------------------------------------------------------------- values
None == "None"
CTL == "controller"
DEVICE_ID == "dev1"
OTHER_ID == "dev2"
DeviceIds == {None, DEVICE_ID, OTHER_ID}
ConnectOutcomes == {"ok", "IHConnectionError"}
UniqueIds == {"u1", "u2"}
Entities == 1..NumEntities

VARIABLES
    controller,     \* self._controller: CTL, or None once removed
    connected,      \* self._connected
    is_connected,   \* self._controller.is_connected (owned by the controller)
    registered,     \* async_update_callback is in the controller's callbacks
    stopped,        \* controller.stop() has been called
    lifecycle,      \* where the entity is in its life in hass
    timers,         \* bag of pending call_later jobs [delay, retries]
    running,        \* bag of try_connect(retries) suspended in connect()
    attempts,       \* connect() calls made by try_connect so far
    drops,          \* disconnect branches taken so far, counted to MaxDrops
    lastCb,         \* what the last async_update_callback invocation did
    lastTry,        \* what the last try_connect invocation did
    lastUpd,        \* how the last async_update ended
    last,           \* the operation that made the last step
    pendingDrop,    \* the controller went connected -> disconnected while the
                    \* flag was true, and no callback has run since
    ctlMap,         \* hass.data[DOMAIN]: whether it has the key "controller",
                    \* and the dict unique id -> controller under that key
    entries,        \* unique ids of the config entries that exist
    loaded,         \* unique ids whose climate platform is set up
    created,        \* IntesisHomeLocal objects constructed so far (ids 1..created)
    handed,         \* log of the controllers platform setups went on with
    refs,           \* self._controller of each entity made from one controller
    pcs,            \* where each of those entities is in its life
    callbacks,      \* the update callbacks registered on that controller
    stop_calls      \* the entities whose removal has called controller.stop()

entityVars == <<controller, connected, is_connected, registered, stopped,
                lifecycle, timers, running, attempts, drops, lastCb, lastTry,
                lastUpd, last, pendingDrop>>

flowVars == <<ctlMap, entries, loaded, created, handed>>

sharedVars == <<refs, pcs, callbacks, stop_calls>>

vars == <<entityVars, flowVars, sharedVars>>

Min(a, b) == IF a < b THEN a ELSE b

Timer(d, r) == [delay |-> d, retries |-> r]

RECURSIVE SeqToBag(_)
SeqToBag(s) == IF s = <<>> THEN EmptyBag
               ELSE SetToBag({Head(s)}) (+) SeqToBag(Tail(s))

NoCb == [device_id |-> None, dropped |-> FALSE, restored |-> FALSE,
         raised |-> "never", refreshes |-> 0, scheduled |-> <<>>]
NoTry == [retries |-> -1, outcome |-> "never", scheduled |-> <<>>]

\* hass.data before any config flow has run
InitFlow ==
    /\ ctlMap = [key |-> FALSE, map |-> [k \in {} |-> 0]]
    /\ entries = {}
    /\ loaded = {}
    /\ created = 0
    /\ handed = <<>>

\* lines 122-128: one IntesisAC per device, all on the same controller
InitShared ==
    /\ refs = [e \in Entities |-> CTL]
    /\ pcs = [e \in Entities |-> "created"]
    /\ callbacks = {}
    /\ stop_calls = {}

\* The flag after an operation left the controller with is_connected = isconn
PendingAfter(isconn) ==
    IF isconn THEN FALSE
    ELSE IF is_connected THEN connected ELSE pendingDrop

\* ------------------------------------------------------- IntesisAC.__init__
Init ==
    /\ controller = CTL
    /\ connected = FALSE
    /\ is_connected \in BOOLEAN
    /\ registered = FALSE
    /\ stopped = FALSE
    /\ lifecycle = "created"
    /\ timers = EmptyBag
    /\ running = EmptyBag
    /\ attempts = 0
    /\ drops = 0
    /\ lastCb = NoCb
    /\ lastTry = NoTry
    /\ lastUpd = "never"
    /\ last = "__init__"
    /\ pendingDrop = FALSE
    /\ InitFlow
    /\ InitShared

\* ------------------------------------------------------ async_added_to_hass
\* add_update_callback, then the await of connect()
AddedToHassStart ==
    /\ lifecycle = "created"
    /\ registered' = TRUE
    /\ lifecycle' = "adding"
    /\ last' = "async_added_to_hass"
    /\ UNCHANGED <<drops, controller, connected, is_connected, stopped, timers,
                   running, attempts, lastCb, lastTry, lastUpd>>
    /\ UNCHANGED <<pendingDrop, flowVars, sharedVars>>

\* connect() resolves: success, or IHConnectionError -> PlatformNotReady
AddedToHassFinish ==
    /\ lifecycle = "adding"
    /\ \E outcome \in ConnectOutcomes :
         IF outcome = "ok"
         THEN /\ is_connected' = TRUE
              /\ lifecycle' = "added"
         ELSE /\ is_connected' = FALSE
              /\ lifecycle' = "not_ready"
    /\ last' = "async_added_to_hass"
    /\ UNCHANGED <<drops, controller, connected, registered, stopped, timers,
                   running, attempts, lastCb, lastTry, lastUpd>>
    /\ pendingDrop' = PendingAfter(is_connected')
    /\ UNCHANGED <<flowVars, sharedVars>>

\* -------------------------------------------------------------- controller
\* The controller loses or regains its connection on its own.
ControllerDrop ==
    /\ is_connected
    /\ is_connected' = FALSE
    /\ last' = "controller"
    /\ UNCHANGED <<drops, controller, connected, registered, stopped, lifecycle,
                   timers, running, attempts, lastCb, lastTry, lastUpd>>
    /\ pendingDrop' = PendingAfter(is_connected')
    /\ UNCHANGED <<flowVars, sharedVars>>

ControllerRestore ==
    /\ ~is_connected
    /\ ~stopped
    /\ is_connected' = TRUE
    /\ last' = "controller"
    /\ UNCHANGED <<drops, controller, connected, registered, stopped, lifecycle,
                   timers, running, attempts, lastCb, lastTry, lastUpd>>
    /\ pendingDrop' = PendingAfter(is_connected')
    /\ UNCHANGED <<flowVars, sharedVars>>

\* ------------------------------------------------------------- async_update
AsyncUpdate ==
    /\ IF controller = None
       THEN /\ lastUpd' = "AttributeError"
            /\ UNCHANGED connected
       ELSE /\ lastUpd' = "ok"
            /\ connected' = is_connected
    /\ last' = "async_update"
    /\ UNCHANGED <<drops, controller, is_connected, registered, stopped, lifecycle,
                   timers, running, attempts, lastCb, lastTry>>
    /\ UNCHANGED <<pendingDrop, flowVars, sharedVars>>

\* ---------------------------------------------------- async_update_callback
\* line 470 without its test of is_connected
DisconnectObservedNoRead(ctl, isconn, conn) ==
    ctl # None /\ conn

\* line 470: the connection has dropped
DisconnectObserved(ctl, isconn, conn) ==
    ctl # None /\ ~isconn /\ conn

\* line 501 one level out, in the disconnect branch
DisconnectSchedulesFirstAttempt == <<Timer(reconnect_seconds, 0)>>

\* lines 473-501: the call_later calls the disconnect branch makes.  The branch
\* logs and defines try_connect; the call_later of line 501 is in the body of
\* try_connect, so the branch itself schedules nothing.
DisconnectSchedules == <<>>

\* line 503 without its test of is_connected
RestoreObservedNoRead(isconn, conn) ==
    ~conn

\* line 503: the connection has been restored (the controller is not None)
RestoreObserved(isconn, conn) ==
    isconn /\ ~conn

\* line 508
ShouldRefresh(device_id) ==
    device_id = None \/ DEVICE_ID = device_id

AsyncUpdateCallback(device_id) ==
    /\ IF controller = None
       THEN \* line 470 is false, line 503 reads None.is_connected
            /\ lastCb' = [device_id |-> device_id, dropped |-> FALSE,
                          restored |-> FALSE, raised |-> "AttributeError",
                          refreshes |-> 0, scheduled |-> <<>>]
            /\ UNCHANGED <<connected, timers, drops>>
       ELSE LET dropped == DisconnectObserved(controller, is_connected,
                                              connected)
                c1 == IF dropped THEN FALSE ELSE connected
                sched == IF dropped THEN DisconnectSchedules ELSE <<>>
                restored == RestoreObserved(is_connected, c1)
                c2 == IF restored THEN TRUE ELSE c1
            IN  /\ connected' = c2
                /\ timers' = timers (+) SeqToBag(sched)
                /\ drops' = IF dropped THEN Min(drops + 1, MaxDrops)
                            ELSE drops
                /\ lastCb' = [device_id |-> device_id, dropped |-> dropped,
                              restored |-> restored, raised |-> "none",
                              refreshes |-> IF ShouldRefresh(device_id)
                                            THEN 1 ELSE 0,
                              scheduled |-> sched]
    /\ last' = "async_update_callback"
    /\ UNCHANGED <<controller, is_connected, registered, stopped, lifecycle,
                   running, attempts, lastTry, lastUpd>>
    /\ pendingDrop' = FALSE
    /\ UNCHANGED <<flowVars, sharedVars>>

\* ----------------------------------------------- async_will_remove_from_hass
\* remove_update_callback, then the await of stop()
WillRemoveStart ==
    /\ lifecycle = "added"
    /\ registered' = FALSE
    /\ stopped' = TRUE
    /\ is_connected' = FALSE
    /\ lifecycle' = "removing"
    /\ last' = "async_will_remove_from_hass"
    /\ UNCHANGED <<drops, controller, connected, timers, running, attempts, lastCb,
                   lastTry, lastUpd>>
    /\ pendingDrop' = PendingAfter(is_connected')
    /\ UNCHANGED <<flowVars, sharedVars>>

\* stop() has returned: self._controller = None
WillRemoveFinish ==
    /\ lifecycle = "removing"
    /\ controller' = None
    /\ lifecycle' = "removed"
    /\ last' = "async_will_remove_from_hass"
    /\ UNCHANGED <<drops, connected, is_connected, registered, stopped, timers,
                   running, attempts, lastCb, lastTry, lastUpd>>
    /\ UNCHANGED <<pendingDrop, flowVars, sharedVars>>

Next ==
    \/ AddedToHassStart
    \/ AddedToHassFinish
    \/ ControllerDrop
    \/ ControllerRestore
    \/ AsyncUpdate
    \/ \E d \in DeviceIds : AsyncUpdateCallback(d)
    \/ WillRemoveStart
    \/ WillRemoveFinish

Spec == Init /\ [][Next]_vars

\* ------------------------------------------------------------- try_connect
\* line 487 without the cap
WaitTimeUncapped(retries) == 2^retries

\* line 487
WaitTime(retries) == Min(2^retries, MAX_WAIT_TIME)

\* lines 485-501: the call_later calls one run of the body makes once
\* connect() has resolved, in order: the retry of line 493 when the attempt
\* failed and retries < MAX_RETRIES, then the call of line 501, which ends the
\* body on every path that leaves the try statement normally.
TryConnectSchedules(retries, outcome) ==
    (IF outcome = "IHConnectionError" /\ retries < MAX_RETRIES
     THEN <<Timer(WaitTime(retries), retries + 1)>>
     ELSE <<>>)
    \o <<Timer(reconnect_seconds, 0)>>

\* A pending job fires: try_connect(retries) runs up to the await of connect().
\* With the controller reference cleared, self._controller.connect() raises
\* AttributeError, which the except clause does not catch.
TryConnectStart ==
    /\ attempts < MaxAttempts
    /\ \E t \in BagToSet(timers) :
         /\ timers' = timers (-) SetToBag({t})
         /\ IF controller = None
            THEN /\ lastTry' = [retries |-> t.retries,
                                outcome |-> "AttributeError",
                                scheduled |-> <<>>]
                 /\ UNCHANGED <<running, attempts>>
            ELSE /\ running' = running (+) SetToBag({t.retries})
                 /\ attempts' = attempts + 1
                 /\ UNCHANGED lastTry
    /\ last' = "try_connect"
    /\ UNCHANGED <<drops, controller, connected, is_connected, registered, stopped,
                   lifecycle, lastCb, lastUpd>>
    /\ UNCHANGED <<pendingDrop, flowVars, sharedVars>>

\* try_connect with "self._connected = True" after line 483
TryConnectFinishSetsFlag ==
    /\ \E r \in BagToSet(running), outcome \in ConnectOutcomes :
         LET sched == TryConnectSchedules(r, outcome)
         IN  /\ running' = running (-) SetToBag({r})
             /\ is_connected' = (outcome = "ok")
             /\ connected' = IF outcome = "ok" THEN TRUE ELSE connected
             /\ timers' = timers (+) SeqToBag(sched)
             /\ lastTry' = [retries |-> r, outcome |-> outcome,
                            scheduled |-> sched]
    /\ last' = "try_connect"
    /\ UNCHANGED <<drops, controller, registered, stopped, lifecycle,
                   attempts, lastCb, lastUpd>>
    /\ pendingDrop' = PendingAfter(is_connected')
    /\ UNCHANGED <<flowVars, sharedVars>>

\* connect() resolves and the rest of the body runs
TryConnectFinish ==
    /\ \E r \in BagToSet(running), outcome \in ConnectOutcomes :
         LET sched == TryConnectSchedules(r, outcome)
         IN  /\ running' = running (-) SetToBag({r})
             /\ is_connected' = (outcome = "ok")
             /\ timers' = timers (+) SeqToBag(sched)
             /\ lastTry' = [retries |-> r, outcome |-> outcome,
                            scheduled |-> sched]
    /\ last' = "try_connect"
    /\ UNCHANGED <<drops, controller, connected, registered, stopped, lifecycle,
                   attempts, lastCb, lastUpd>>
    /\ pendingDrop' = PendingAfter(is_connected')
    /\ UNCHANGED <<flowVars, sharedVars>>

\* The closure try_connect is only reachable through a scheduled job.  InitTry
\* is the entity, added to hass and with the flag already cleared by the
\* disconnect branch, with one job try_connect(n) pending for some n.
InitTry ==
    /\ controller = CTL
    /\ connected = FALSE
    /\ is_connected = FALSE
    /\ registered = TRUE
    /\ stopped = FALSE
    /\ lifecycle = "added"
    /\ \E n \in 0..MAX_RETRIES :
         timers = SetToBag({Timer(IF n = 0 THEN reconnect_seconds
                                  ELSE WaitTime(n - 1), n)})
    /\ running = EmptyBag
    /\ attempts = 0
    /\ drops = 1
    /\ lastCb = NoCb
    /\ lastTry = NoTry
    /\ lastUpd = "never"
    /\ last = "call_later"
    /\ pendingDrop = FALSE
    /\ InitFlow
    /\ InitShared

NextTry ==
    \/ TryConnectStart
    \/ TryConnectFinish
    \/ ControllerDrop
    \/ ControllerRestore
    \/ AsyncUpdate
    \/ \E d \in DeviceIds : AsyncUpdateCallback(d)
    \/ WillRemoveStart
    \/ WillRemoveFinish

SpecTry == InitTry /\ [][NextTry]_vars


\* ------------------------------------------- config flow and platform setup
PollOutcomes == {"ok", "IHAuthenticationError", "IHConnectionError"}

\* line 119 with [] in place of pop()
PopControllerKeeps(m, u) == m

\* line 119: the dict that dict.pop(unique_id) leaves behind
PopController(m, u) == [k \in (DOMAIN m) \ {u} |-> m[k]]

\* config_flow.async_test_config for the device with unique id u: construct a
\* controller, poll it, and unless the poll fails or the unique id is already
\* configured, store the controller for the platform and create the entry.
FlowTestConfig(u, outcome) ==
    /\ created < MaxControllers
    /\ created' = created + 1
    /\ IF outcome = "ok" /\ u \notin entries
       THEN /\ ctlMap' = [key |-> TRUE,
                           map |-> [k \in (DOMAIN ctlMap.map) \cup {u} |->
                                      IF k = u THEN created + 1
                                      ELSE ctlMap.map[k]]]
            /\ entries' = entries \cup {u}
       ELSE UNCHANGED <<ctlMap, entries>>
    /\ UNCHANGED <<loaded, handed>>
    /\ UNCHANGED <<entityVars, sharedVars>>

\* climate.async_setup_entry for the entry with unique id u
ClimateSetupEntry(u) ==
    /\ u \in entries
    /\ u \notin loaded
    /\ IF ctlMap.key /\ u \in DOMAIN ctlMap.map
       THEN \* lines 115-129
            /\ ctlMap' = [ctlMap EXCEPT !.map = PopController(ctlMap.map, u)]
            /\ handed' = Append(handed, [ctl |-> ctlMap.map[u],
                                         unique_id |-> u, path |-> "popped"])
            /\ loaded' = loaded \cup {u}
            /\ UNCHANGED created
       ELSE \* lines 131-164
            /\ created < MaxControllers
            /\ created' = created + 1
            /\ \E outcome \in PollOutcomes, devices \in BOOLEAN :
                 IF outcome = "ok" /\ devices
                 THEN /\ handed' = Append(handed,
                                          [ctl |-> created + 1,
                                           unique_id |-> u, path |-> "fresh"])
                      /\ loaded' = loaded \cup {u}
                 ELSE UNCHANGED <<handed, loaded>>
            /\ UNCHANGED ctlMap
    /\ UNCHANGED entries
    /\ UNCHANGED <<entityVars, sharedVars>>

\* __init__.async_unload_entry, for a reload or for the removal of the entry
UnloadEntry(u, removal) ==
    /\ u \in loaded
    /\ loaded' = loaded \ {u}
    /\ entries' = IF removal THEN entries \ {u} ELSE entries
    /\ UNCHANGED <<ctlMap, created, handed>>
    /\ UNCHANGED <<entityVars, sharedVars>>

NextFlow ==
    \/ \E u \in UniqueIds, outcome \in PollOutcomes : FlowTestConfig(u, outcome)
    \/ \E u \in UniqueIds : ClimateSetupEntry(u)
    \/ \E u \in UniqueIds, removal \in BOOLEAN : UnloadEntry(u, removal)

SpecFlow == Init /\ [][NextFlow]_vars


\* --------------------------------- several entities made from one controller
\* line 456 as "stop the controller once no callback is left"
StopsControllerWhenLast(cbs) == cbs = {}

\* line 456: stop() is awaited whatever callbacks remain
StopsController(cbs) == TRUE

\* async_added_to_hass of entity e
SharedAddedToHass(e) ==
    /\ pcs[e] = "created"
    /\ callbacks' = callbacks \cup {e}
    /\ \E outcome \in ConnectOutcomes :
         pcs' = [pcs EXCEPT ![e] = IF outcome = "ok" THEN "added"
                                   ELSE "not_ready"]
    /\ UNCHANGED <<refs, stop_calls>>
    /\ UNCHANGED <<entityVars, flowVars>>

\* async_will_remove_from_hass of entity e, line 455
SharedUnregister(e) ==
    /\ pcs[e] = "added"
    /\ callbacks' = callbacks \ {e}
    /\ pcs' = [pcs EXCEPT ![e] = "line456"]
    /\ UNCHANGED <<refs, stop_calls>>
    /\ UNCHANGED <<entityVars, flowVars>>

\* line 456
SharedStop(e) ==
    /\ pcs[e] = "line456"
    /\ stop_calls' = IF StopsController(callbacks) THEN stop_calls \cup {e}
                     ELSE stop_calls
    /\ pcs' = [pcs EXCEPT ![e] = "line457"]
    /\ UNCHANGED <<refs, callbacks>>
    /\ UNCHANGED <<entityVars, flowVars>>

\* line 457
SharedClear(e) ==
    /\ pcs[e] = "line457"
    /\ refs' = [refs EXCEPT ![e] = None]
    /\ pcs' = [pcs EXCEPT ![e] = "removed"]
    /\ UNCHANGED <<callbacks, stop_calls>>
    /\ UNCHANGED <<entityVars, flowVars>>

NextShared ==
    \/ \E e \in Entities : SharedAddedToHass(e)
    \/ \E e \in Entities : SharedUnregister(e)
    \/ \E e \in Entities : SharedStop(e)
    \/ \E e \in Entities : SharedClear(e)

SpecShared == Init /\ [][NextShared]_vars

\* ===================================================================== claims
Pending == BagCardinality(timers) + BagCardinality(running)

AfterCallback == last = "async_update_callback"

\* C1: an async_update_callback that runs with the flag true and the
\* controller disconnected clears the flag and schedules exactly one job,
\* try_connect(0), after reconnect_seconds.
C1_DisconnectSchedulesFirstAttempt ==
    (AfterCallback /\ lastCb.dropped) =>
        /\ ~connected
        /\ lastCb.scheduled = <<Timer(reconnect_seconds, 0)>>

C5_Delays == <<1, 2, 4, 8, 16, 32, 64, 128, 256, 300>>

C6_CallbackNeverRaises ==
    lastCb.raised \in {"never", "none"}

\* C7: every invocation of async_update_callback requests the refresh once
\* when device_id is None or the entity's own id, and not at all otherwise.
C7_RefreshPerEvent ==
    AfterCallback =>
        lastCb.refreshes =
            (IF lastCb.device_id \in {None, DEVICE_ID} THEN 1 ELSE 0)

\* C8: once a disconnect has been notified to an entity that still has its
\* controller, and no try_connect is pending or running any more without the
\* last attempt having failed, connect() attempts were made and ended in a
\* success, and the notified event was refreshed once.
C8_RetrySequenceRuns ==
    (/\ controller # None
     /\ drops >= 1
     /\ Pending = 0
     /\ lastTry.outcome # "IHConnectionError")
        => /\ attempts >= 1
           /\ lastTry.outcome = "ok"
           /\ ((AfterCallback /\ lastCb.device_id # OTHER_ID)
                  => lastCb.refreshes = 1)

\* C9: an entity that was added to hass and has seen no poll and no
\* notification yet is in the Connected state.
C9_StartsConnected ==
    (lifecycle = "added" /\ lastCb = NoCb /\ lastUpd = "never") => connected

\* C10: an async_update_callback that runs while the controller reports
\* connected takes no disconnect branch, calls no connect(), schedules
\* nothing, leaves the flag true, and changes the flag only from false to
\* true.
C10_ConnectedNoReconnectWork ==
    [][(AfterCallback' /\ controller # None /\ is_connected) =>
          /\ timers' = timers
          /\ running' = running
          /\ attempts' = attempts
          /\ drops' = drops
          /\ lastCb'.scheduled = <<>>
          /\ ~lastCb'.dropped
          /\ connected'
          /\ lastCb'.restored = ~connected
          /\ lastCb'.raised = "none"]_vars

\* C10 witness: a notification while connected turned the flag on
C10_Witness ==
    /\ AfterCallback
    /\ controller # None
    /\ is_connected
    /\ lastCb.restored
    /\ connected

C13_FlagFollowsController ==
    [][/\ ((last' = "async_update_callback" /\ controller # None) =>
              /\ connected' = is_connected
              /\ ~(lastCb'.dropped /\ lastCb'.restored))
       /\ ((last' = "async_update" /\ controller # None) =>
              connected' = is_connected)]_vars

\* C13 witness: a callback took the disconnect branch and only that one
C13_Witness ==
    /\ AfterCallback
    /\ controller # None
    /\ lastCb.dropped
    /\ ~lastCb.restored
    /\ ~connected
    /\ ~is_connected

\* C14: a callback that runs with the controller set, after the controller
\* went connected -> disconnected under a true flag and before any other
\* callback, takes the disconnect branch, whatever ran in between.
C14_DropDetected ==
    [][(last' = "async_update_callback" /\ controller # None /\ pendingDrop)
          => lastCb'.dropped]_vars

\* C12: no controller is used by two platform setups, a set-up entry has no
\* controller left in hass.data, and a controller a setup built itself was
\* never the stored one.
C12_ControllerConsumedOnce ==
    /\ \A i, j \in 1..Len(handed) :
           i # j => handed[i].ctl # handed[j].ctl
    /\ \A u \in loaded : u \notin DOMAIN ctlMap.map
    /\ \A i \in 1..Len(handed) :
           handed[i].path = "fresh" =>
               \A u \in DOMAIN ctlMap.map : ctlMap.map[u] # handed[i].ctl

\* C12 witness: an entry was set up from the stored controller and later set
\* up again from one it built and polled itself
C12_Witness ==
    \E i, j \in 1..Len(handed) :
        /\ i < j
        /\ handed[i].unique_id = handed[j].unique_id
        /\ handed[i].path = "popped"
        /\ handed[j].path = "fresh"

\* C15: a removal has unregistered its entity's callback before it stops the
\* controller, has stopped the controller before it clears the reference, and
\* stops the controller whichever other entities are still registered on it.
C15_RemovalOrder ==
    \A e \in Entities :
        /\ pcs[e] \in {"line456", "line457", "removed"} => e \notin callbacks
        /\ e \in stop_calls <=> pcs[e] \in {"line457", "removed"}
        /\ refs[e] = None <=> pcs[e] = "removed"
        /\ refs[e] = None => (e \in stop_calls /\ e \notin callbacks)

\* C15 witness: one entity's removal has stopped the controller while another
\* entity is added, registered and still holds the controller
C15_Witness ==
    \E e, f \in Entities :
        /\ e # f
        /\ e \in stop_calls
        /\ refs[e] = None
        /\ pcs[f] = "added"
        /\ f \in callbacks
        /\ refs[f] = CTL
====
